---- MODULE Spec2Model ----
(***************************************************************************)
(* Keyword cleaning and clustering, the command handlers and the           *)
(* batch-processing pipeline of the Slack content bot:                     *)
(* app/keyword/processor.py, app/keyword/grouper.py,                       *)
(* app/slack/commands.py, app/storage/cache.py, app/storage/database.py.   *)
(*                                                                         *)
(* A task is one invocation of handle_process_command; when it reaches     *)
(* asyncio.create_task it continues as the background pipeline run         *)
(* (_process_batch_background).  Every call on the store, the cache, the   *)
(* chat client or a stage collaborator is one step; store writes, chat     *)
(* posts and the report sink may raise, the cache behaves as Redis does.   *)
(* Scores are in tenths (10 = 1.0, 8 = 0.8, 5 = 0.5); cluster names are    *)
(* left out.  Spec is the /process pipeline, LiveSpec the same under the   *)
(* passing of time, RateSpec the /keywords handler with its rate limiter,  *)
(* RegenSpec /regenerate next to one /process request, GroupSpec and       *)
(* FallbackSpec group_keywords alone, CleanSpec _clean_keyword alone,      *)
(* ParseSpec parse_keywords alone, FilterSpec filter_similar_keywords      *)
(* alone, FairSpec the pipeline under a fair event loop, RaceSpec          *)
(* _check_rate_limit with key expiry between its cache calls.              *)
(***************************************************************************)
EXTENDS Integers, Sequences, FiniteSets, TLC

\* ---------------------------------------------------------------- bounds
NumTasks == 2          \* /process requests issued in one behaviour
MaxLen == 6            \* longest keyword list given to group_keywords alone
MaxFallbackLen == 12   \* longest keyword list given to the fallback path alone
MaxChars == 5          \* longest string given to _clean_keyword alone
MaxText == 4           \* longest arbitrary text given to parse_keywords alone
MaxFragments == 4      \* most fragments of a delimited text given to parse_keywords
MaxKeywords == 3       \* longest keyword list given to filter_similar_keywords
MaxChecks == 12        \* _check_rate_limit calls in one behaviour of RaceSpec
MaxRequests == 12      \* /keywords commands user u1 issues in one behaviour
MaxOthers == 1         \* /keywords commands the other user issues
MaxBatches == 2        \* batches created by /keywords in one behaviour
MaxRegens == 2         \* /regenerate commands issued in one behaviour

\* ------------------------------------------------------ program constants
LockTTL == 1800
RateLimitTTL == 900
RateLimitMax == 10
DefaultMaxGroups == 20
MinGroupSize == 3
ChunkDivisor == 5
ClusterDivisor == 3
IdeasPerGroup == 5
TotalSteps == 4

\* time advances in units of the shortest TTL the program sets
TickSeconds == RateLimitTTL

Tasks == 1..NumTasks
Users == {"u1", "u2"}
BatchIds == {"b1"}
NoBatch == "missing"

Min(a, b) == IF a < b THEN a ELSE b
Max(a, b) == IF a > b THEN a ELSE b

VARIABLES
    keyword_batches,   \* store table keyword_batches: id -> row
    keyword_groups,    \* store table keyword_groups: sequence of rows
    outlines,          \* store table outlines: sequence of rows
    cache,             \* Redis: key -> [value, ttl]; ttl = 0 means absent
    tasks,             \* task -> handler / pipeline-run state
    g_in,              \* input of a stand-alone group_keywords call
    g_out,             \* its result
    kw,                \* the /keywords handler in flight
    history,           \* user -> rate-limit decisions of the last 15 minutes
    regen,             \* the /regenerate handler in flight
    k_in,              \* input of a stand-alone _clean_keyword call
    k_out,             \* its result, and the result of cleaning that again
    p_in,              \* input of a stand-alone parse_keywords call
    p_out,             \* its result
    f,                 \* a filter_similar_keywords call: input, position, filtered
    post_ideas,        \* the post ideas the store holds (no call writes any)
    lock_setter,       \* batch -> the task whose cache.set wrote the lock last
    rl                 \* a _check_rate_limit call between its cache calls

vars == <<keyword_batches, keyword_groups, outlines, cache, tasks, g_in, g_out,
          kw, history, regen, k_in, k_out, p_in, p_out, f, post_ideas,
          lock_setter, rl>>
rate == <<kw, history>>
cleaner == <<k_in, k_out>>
parser == <<p_in, p_out>>
more == <<parser, f, post_ideas, rl>>
rest == <<rate, regen, cleaner, more, lock_setter>>
store == <<keyword_batches, keyword_groups, outlines>>

\* ---------------------------------------------------- the keyword cleaner

\* a string is a sequence of characters: a lower-case and an upper-case
\* letter, two kinds of whitespace, the hyphen and a punctuation mark
Whitespace == {" ", "\t"}
Hyphen == {"-"}
Chars == {"a", "A", "!"} \cup Whitespace \cup Hyphen
Strings == UNION {[1..n -> Chars] : n \in 0..MaxChars}

\* str.lower()
lower(s) == [i \in DOMAIN s |-> IF s[i] = "A" THEN "a" ELSE s[i]]

RECURSIVE lstrip(_, _)
lstrip(s, chars) ==
    IF s # <<>> /\ Head(s) \in chars THEN lstrip(Tail(s), chars) ELSE s

RECURSIVE rstrip(_, _)
rstrip(s, chars) ==
    IF s # <<>> /\ s[Len(s)] \in chars THEN rstrip(SubSeq(s, 1, Len(s) - 1), chars) ELSE s

\* str.strip(chars); strip() without argument strips whitespace
strip(s, chars) == rstrip(lstrip(s, chars), chars)

\* re.sub(r'\s+', ' ', s)
RECURSIVE collapse_whitespace(_)
collapse_whitespace(s) ==
    IF s = <<>> THEN <<>>
    ELSE IF Head(s) \in Whitespace
         THEN <<" ">> \o collapse_whitespace(lstrip(s, Whitespace))
         ELSE <<Head(s)>> \o collapse_whitespace(Tail(s))

\* the characters of the class \w: letters and a digit
Letters == {"a", "n", "A"}
Digits == {"1"}
WordChars == Letters \cup Digits

\* re.sub(r'[^\w\s-]', '', s)
remove_special(s) ==
    SelectSeq(s, LAMBDA c : c \in WordChars \cup Whitespace \cup Hyphen)

\* KeywordProcessor._clean_keyword
clean_keyword(keyword) ==
    IF keyword = <<>> THEN <<>>
    ELSE strip(strip(remove_special(collapse_whitespace(strip(lower(keyword), Whitespace))),
                     Hyphen),
               Whitespace)

NotCleaned == [called |-> FALSE, once |-> <<>>, twice |-> <<>>]

\* ----------------------------------------------------- the keyword parser

MaxKeywordLength == 100
MinKeywordLength == 2

\* the stop words that can be spelled with the letters of the model
stop_words == {<<"a">>, <<"a", "n">>}

\* the delimiters of the model, in the order parse_keywords applies them
delimiters == <<",", "\t">>

\* the characters of a command text
TextChars == Chars \cup WordChars \cup {delimiters[d] : d \in DOMAIN delimiters}

\* str.split(delimiter): the pieces between the delimiters, empty ones included
RECURSIVE split(_, _, _)
split(s, delimiter, piece) ==
    IF s = <<>> THEN <<piece>>
    ELSE IF Head(s) = delimiter THEN <<piece>> \o split(Tail(s), delimiter, <<>>)
    ELSE split(Tail(s), delimiter, Append(piece, Head(s)))

\* new_keywords.extend(keyword.split(delimiter)) for every keyword
RECURSIVE split_all(_, _)
split_all(keywords, delimiter) ==
    IF keywords = <<>> THEN <<>>
    ELSE split(Head(keywords), delimiter, <<>>) \o split_all(Tail(keywords), delimiter)

RECURSIVE split_by_each(_, _)
split_by_each(keywords, d) ==
    IF d > Len(delimiters) THEN keywords
    ELSE split_by_each(split_all(keywords, delimiters[d]), d + 1)

\* str.isdigit()
isdigit(s) == s # <<>> /\ \A i \in DOMAIN s : s[i] \in Digits

\* KeywordProcessor._is_valid_keyword
is_valid_keyword(keyword) ==
    IF keyword = <<>> THEN FALSE
    ELSE IF Len(keyword) < MinKeywordLength \/ Len(keyword) > MaxKeywordLength THEN FALSE
    ELSE IF ~\E i \in DOMAIN keyword : keyword[i] \in Letters THEN FALSE
    ELSE IF isdigit(keyword) THEN FALSE
    ELSE IF keyword \in stop_words THEN FALSE
    ELSE IF \A i \in DOMAIN keyword : keyword[i] \notin WordChars \cup Whitespace THEN FALSE
    ELSE TRUE

\* the loop that cleans every piece and keeps the valid ones
RECURSIVE clean_and_filter(_)
clean_and_filter(keywords) ==
    IF keywords = <<>> THEN <<>>
    ELSE LET cleaned == clean_keyword(strip(Head(keywords), Whitespace))
         IN  (IF cleaned # <<>> /\ is_valid_keyword(cleaned) THEN <<cleaned>> ELSE <<>>)
             \o clean_and_filter(Tail(keywords))

\* list(dict.fromkeys(keywords)): the first occurrence of every string
RECURSIVE fromkeys(_, _)
fromkeys(keywords, seen) ==
    IF keywords = <<>> THEN <<>>
    ELSE IF Head(keywords) \in seen THEN fromkeys(Tail(keywords), seen)
    ELSE <<Head(keywords)>> \o fromkeys(Tail(keywords), seen \cup {Head(keywords)})

\* parse_keywords that returns the cleaned keywords with their repeats
parse_keywords_with_repeats(text) ==
    clean_and_filter(split_by_each(<<text>>, 1))

\* KeywordProcessor.parse_keywords
parse_keywords(text) ==
    fromkeys(clean_and_filter(split_by_each(<<text>>, 1)), {})

NotParsed == [called |-> FALSE, keywords |-> <<>>]

\* ---------------------------------------------------- the similarity filter

\* a keyword is given by its words: the string is the words joined by spaces
WordLength == [w \in {"content", "Content"} |-> 7] @@ ("marketing" :> 9)
              @@ ("strategy" :> 8) @@ ("seo" :> 3)

\* str.lower() of a word
lower_word(w) == IF w = "Content" THEN "content" ELSE w

\* len(keyword)
RECURSIVE len(_)
len(keyword) ==
    IF keyword = <<>> THEN 0
    ELSE IF Len(keyword) = 1 THEN WordLength[keyword[1]]
    ELSE WordLength[Head(keyword)] + 1 + len(Tail(keyword))

\* set(str.lower().split())
words(str) == {lower_word(str[i]) : i \in DOMAIN str}

\* self._calculate_similarity(str1, str2) > threshold, the threshold in tenths
similar(str1, str2, threshold) ==
    IF str1 = <<>> \/ str2 = <<>> THEN 0 > threshold
    ELSE LET intersection == Cardinality(words(str1) \cap words(str2))
             union == Cardinality(words(str1) \cup words(str2))
         IN  IF union > 0 THEN intersection * 10 > threshold * union
             ELSE 0 > threshold

\* list.remove(x): the list without the first element equal to x
RECURSIVE remove(_, _)
remove(list, x) ==
    IF list = <<>> THEN <<>>
    ELSE IF Head(list) = x THEN Tail(list)
    ELSE <<Head(list)>> \o remove(Tail(list), x)

\* the inner loop of filter_similar_keywords without the replacement: a
\* keyword similar to an accepted one is always dropped
RECURSIVE filter_keyword_never_replacing(_, _, _, _)
filter_keyword_never_replacing(filtered, keyword, threshold, j) ==
    IF j > Len(filtered) THEN Append(filtered, keyword)
    ELSE IF similar(keyword, filtered[j], threshold) THEN filtered
    ELSE filter_keyword_never_replacing(filtered, keyword, threshold, j + 1)

\* the inner loop of filter_similar_keywords for one keyword, from the j-th
\* accepted keyword on
RECURSIVE filter_keyword(_, _, _, _)
filter_keyword(filtered, keyword, threshold, j) ==
    IF j > Len(filtered) THEN Append(filtered, keyword)
    ELSE IF similar(keyword, filtered[j], threshold)
         THEN IF len(keyword) < len(filtered[j])
              THEN Append(remove(filtered, filtered[j]), keyword)
              ELSE filtered
    ELSE filter_keyword(filtered, keyword, threshold, j + 1)

NoFilter == [keywords |-> <<>>, threshold |-> 0, i |-> 0, filtered |-> <<>>]

\* ------------------------------------------------------------ the grouper

\* outcome of model loading, embedding and KMeans for one call
NoLabels == <<>>

LabelSets(n, k) == IF k <= 1 THEN {NoLabels} ELSE [1..n -> 0..(k - 1)]

n_clusters(keywords, max_groups) ==
    Min(max_groups, Max(1, Len(keywords) \div ClusterDivisor))

Outcomes(keywords, max_groups) ==
    [model : BOOLEAN, embed : BOOLEAN, kmeans : {"ok", "error"},
     labels : LabelSets(Len(keywords), n_clusters(keywords, max_groups))]

\* f"group_{n}", the id the grouper gives a group
grouper_id(n) == <<"group", n>>

Group(id, kws, score) == [id |-> grouper_id(id), keywords |-> kws, score |-> score]

\* keywords[i:i + group_size], 0-based i
Slice(keywords, i, group_size) ==
    SubSeq(keywords, i + 1, Min(Len(keywords), i + group_size))

RECURSIVE FallbackChunks(_, _, _, _)
FallbackChunks(keywords, group_size, i, groups) ==
    IF i >= Len(keywords) THEN groups
    ELSE FallbackChunks(keywords, group_size, i + group_size,
             Append(groups, Group(Len(groups) + 1,
                                  Slice(keywords, i, group_size), 5)))

\* fallback_grouping with chunks of at least two keywords instead of three
fallback_grouping_pairs(keywords) ==
    IF keywords = <<>> THEN <<>>
    ELSE FallbackChunks(keywords,
                        Max(MinGroupSize - 1, Len(keywords) \div ChunkDivisor),
                        0, <<>>)

\* fallback_grouping that stops before a last, shorter chunk
fallback_grouping_full_chunks(keywords) ==
    IF keywords = <<>> THEN <<>>
    ELSE LET group_size == Max(MinGroupSize, Len(keywords) \div ChunkDivisor)
         IN  FallbackChunks(SubSeq(keywords, 1, (Len(keywords) \div group_size) * group_size),
                            group_size, 0, <<>>)

fallback_grouping(keywords) ==
    IF keywords = <<>> THEN <<>>
    ELSE FallbackChunks(keywords,
                        Max(MinGroupSize, Len(keywords) \div ChunkDivisor),
                        0, <<>>)

\* [keywords[i] for i in range(len(keywords)) if cluster_labels[i] == cluster_id]
RECURSIVE ClusterMembers(_, _, _, _)
ClusterMembers(keywords, labels, cluster_id, i) ==
    IF i > Len(keywords) THEN <<>>
    ELSE IF labels[i] = cluster_id
         THEN <<keywords[i]>> \o ClusterMembers(keywords, labels, cluster_id, i + 1)
         ELSE ClusterMembers(keywords, labels, cluster_id, i + 1)

RECURSIVE ClusterGroups(_, _, _, _, _)
ClusterGroups(keywords, labels, k, cluster_id, groups) ==
    IF cluster_id >= k THEN groups
    ELSE LET cluster_keywords == ClusterMembers(keywords, labels, cluster_id, 1)
         IN  ClusterGroups(keywords, labels, k, cluster_id + 1,
                 IF cluster_keywords # <<>>
                 THEN Append(groups, Group(cluster_id + 1, cluster_keywords, 8))
                 ELSE groups)

\* the loop over the clusters without "if cluster_keywords": a cluster
\* that got no keyword becomes a group as well
RECURSIVE ClusterGroupsEmptyToo(_, _, _, _, _)
ClusterGroupsEmptyToo(keywords, labels, k, cluster_id, groups) ==
    IF cluster_id >= k THEN groups
    ELSE ClusterGroupsEmptyToo(keywords, labels, k, cluster_id + 1,
             Append(groups, Group(cluster_id + 1,
                                  ClusterMembers(keywords, labels, cluster_id, 1), 8)))

cluster_keywords_with_empty_groups(keywords, max_groups, o) ==
    LET k == n_clusters(keywords, max_groups)
    IN  IF k <= 1 THEN <<Group(1, keywords, 10)>>
        ELSE IF o.kmeans = "error" THEN fallback_grouping(keywords)
        ELSE ClusterGroupsEmptyToo(keywords, o.labels, k, 0, <<>>)

cluster_keywords(keywords, max_groups, o) ==
    LET k == n_clusters(keywords, max_groups)
    IN  IF k <= 1 THEN <<Group(1, keywords, 10)>>
        ELSE IF o.kmeans = "error" THEN fallback_grouping(keywords)
        ELSE ClusterGroups(keywords, o.labels, k, 0, <<>>)

generate_embeddings(o) == o.model /\ o.embed

\* group_keywords without the shortcut for lists of fewer than two keywords
group_keywords_without_shortcut(keywords, max_groups, o) ==
    IF ~generate_embeddings(o) THEN fallback_grouping(keywords)
    ELSE cluster_keywords(keywords, max_groups, o)

group_keywords(keywords, max_groups, o) ==
    IF Len(keywords) < 2 THEN <<Group(1, keywords, 10)>>
    ELSE IF ~generate_embeddings(o) THEN fallback_grouping(keywords)
    ELSE cluster_keywords(keywords, max_groups, o)

NoOutcome == [model |-> TRUE, embed |-> TRUE, kmeans |-> "ok", labels |-> NoLabels]
NotCalled == [called |-> FALSE, groups |-> <<>>, o |-> NoOutcome]

\* keyword lists of every length up to MaxLen, repeated keywords included
Vocabulary == {"seo tips", "email marketing"}
KeywordLists == UNION {[1..n -> Vocabulary] : n \in 0..MaxLen}
MaxGroupsSettings == {1, 2, DefaultMaxGroups}

\* ------------------------------------------------------------- the cache

Keys == {<<"processing", b>> : b \in BatchIds} \cup {<<"rate_limit", u>> : u \in Users}
lock_key(b) == <<"processing", b>>
rate_limit_key(u) == <<"rate_limit", u>>
NoEntry == [value |-> "", ttl |-> 0]
NoExpiry == -1         \* a key written without a TTL

cache_exists(key) == cache[key].ttl # 0
cache_set(key, value, ttl) == [cache EXCEPT ![key] = [value |-> value, ttl |-> ttl]]
cache_delete(key) == [cache EXCEPT ![key] = NoEntry]

\* CacheManager.get: <<value>>, or <<>> (None) for a key that does not exist
cache_get(key) == IF cache_exists(key) THEN <<cache[key].value>> ELSE <<>>

\* CacheManager.increment (INCRBY): the TTL of an existing key is kept, a key
\* that does not exist is created with the amount and without a TTL
cache_increment(key, amount) ==
    IF cache_exists(key)
    THEN [cache EXCEPT ![key].value = @ + amount]
    ELSE [cache EXCEPT ![key] = [value |-> amount, ttl |-> NoExpiry]]

\* the cache after `seconds` have passed: Redis drops the keys whose TTL ran out
expire(seconds) ==
    [k \in Keys |->
       IF cache[k].ttl = NoExpiry THEN cache[k]
       ELSE IF cache[k].ttl > seconds
       THEN [cache[k] EXCEPT !.ttl = @ - seconds]
       ELSE NoEntry]

\* ------------------------------------------------------------- the tasks

Ev(kind, what, n, m, ref) == [kind |-> kind, what |-> what, n |-> n, m |-> m, ref |-> ref]
Notice(what) == Ev("notice", what, 0, 0, "")
NoReport == [download_url |-> "", email_sent |-> FALSE]

IdleTask == [pc |-> "idle", user |-> "", batch |-> "", log |-> <<>>,
             groups |-> <<>>, i |-> 0, ideas |-> <<>>, report |-> NoReport,
             set_lock |-> FALSE, deleted_lock |-> FALSE, failed_at |-> ""]

RunPcs == {"r_update", "r_post1", "r_group", "r_save", "r_post2", "r_outline",
           "r_post3", "r_ideas", "r_post4", "r_report", "r_complete",
           "r_post_done", "r_post_email", "r_release",
           "x_update", "x_release", "x_post"}

\* a pipeline run of batch b is active in task t
ActiveRun(t, b) == tasks[t].batch = b /\ tasks[t].pc \in RunPcs

Go(t, pc) == [tasks EXCEPT ![t].pc = pc]

\* the call at the task's pc raised: control passes to the except clause
Raise(t) == [tasks EXCEPT ![t].pc = "x_update", ![t].failed_at = tasks[t].pc]

\* no /keywords command has been handled yet
IdleKeywords == [pc |-> "idle", user |-> "", log |-> <<>>, rejected |-> FALSE,
                 issued |-> [u \in Users |-> 0], created |-> 0]

\* no _check_rate_limit call is between its cache calls
IdleCheck == [pc |-> "idle", user |-> "", current |-> <<>>, ok |-> TRUE,
              issued |-> 0]

\* no /regenerate command has been handled yet
IdleRegenerate == [pc |-> "idle", user |-> "", batch |-> "", denied |-> "",
                   log |-> <<>>, groups |-> <<>>, i |-> 0, issued |-> 0]

\* an uploaded batch of user u1 (create_keyword_batch, status "uploaded"),
\* no groups, no outlines, an empty cache, no request in flight
PipelineInit ==
    /\ keyword_batches =
         [b \in BatchIds |->
            [user_id |-> "u1", status |-> "uploaded",
             keywords |-> <<"seo tips", "seo tools", "seo audit", "email marketing">>]]
    /\ keyword_groups = <<>>
    /\ outlines = <<>>
    /\ cache = [k \in Keys |-> NoEntry]
    /\ tasks = [t \in Tasks |-> IdleTask]
    /\ kw = IdleKeywords
    /\ history = [u \in Users |-> <<>>]
    /\ regen = IdleRegenerate
    /\ post_ideas = <<>>
    /\ lock_setter = [b \in BatchIds |-> 0]
    /\ rl = IdleCheck

Init ==
    /\ PipelineInit
    /\ g_in = [keywords |-> <<>>, max_groups |-> DefaultMaxGroups]
    /\ g_out = NotCalled
    /\ k_in = <<>>
    /\ k_out = NotCleaned
    /\ p_in = <<>>
    /\ p_out = NotParsed
    /\ f = NoFilter

Log(t, ev) == Append(tasks[t].log, ev)

\* db.get_keyword_batch: the row, or None when there is none or the read fails
get_keyword_batch(batch_id, read_ok) ==
    IF read_ok /\ batch_id \in BatchIds THEN batch_id ELSE NoBatch

\* handle_process_command up to the call of _start_batch_processing
handle_process_command(t, user_id, text, read_ok) ==
    /\ tasks[t].pc = "idle"
    /\ LET batch == get_keyword_batch(text, read_ok)
           pc == IF text = "" THEN "h_post_usage"
                 ELSE IF batch = NoBatch THEN "h_post_notfound"
                 ELSE IF keyword_batches[batch].user_id # user_id THEN "h_post_unauth"
                 ELSE "s_exists"
       IN  tasks' = [tasks EXCEPT ![t].pc = pc, ![t].user = user_id,
                                  ![t].batch = IF pc = "s_exists" THEN batch ELSE ""]
    /\ UNCHANGED <<store, cache, g_in, g_out, rest>>

\* check_processing_lock with the key written before it is tested: a request
\* that finds the lock refreshes its TTL
check_processing_lock_refreshing(t) ==
    /\ tasks[t].pc = "s_exists"
    /\ tasks' = [tasks EXCEPT ![t].pc =
                    IF cache_exists(lock_key(tasks[t].batch))
                    THEN "s_post_already" ELSE "s_set"]
    /\ cache' = IF cache_exists(lock_key(tasks[t].batch))
                THEN cache_set(lock_key(tasks[t].batch), "processing", LockTTL)
                ELSE cache
    /\ UNCHANGED <<store, g_in, g_out, rest>>

\* _start_batch_processing: if await self.cache.exists(lock_key)
check_processing_lock(t) ==
    /\ tasks[t].pc = "s_exists"
    /\ tasks' = [tasks EXCEPT ![t].pc =
                    IF cache_exists(lock_key(tasks[t].batch))
                    THEN "s_post_already" ELSE "s_set"]
    /\ UNCHANGED <<store, cache, g_in, g_out, rest>>

\* _start_batch_processing: await self.cache.set(lock_key, "processing", ttl=1800)
set_processing_key(t) ==
    /\ tasks[t].pc = "s_set"
    /\ cache' = cache_set(lock_key(tasks[t].batch), "processing", LockTTL)
    /\ tasks' = [tasks EXCEPT ![t].pc = "s_post_started", ![t].set_lock = TRUE]
    /\ lock_setter' = [lock_setter EXCEPT ![tasks[t].batch] = t]
    /\ UNCHANGED <<store, g_in, g_out, rate, regen, cleaner, more>>

\* the notice a task posts at pc, and where it continues when the post
\* returns and when it raises
PostPcs == {"h_post_usage", "h_post_notfound", "h_post_unauth", "h_err",
            "s_post_already", "s_post_started", "s_err",
            "r_post1", "r_post2", "r_post3", "r_post4",
            "r_post_done", "r_post_email", "x_post"}

PostNotice(t) ==
    LET T == tasks[t]
    IN  CASE T.pc = "h_post_usage"    -> Notice("process_usage")
          [] T.pc = "h_post_notfound" -> Notice("batch_not_found")
          [] T.pc = "h_post_unauth"   -> Notice("unauthorized_batch")
          [] T.pc = "h_err"           -> Notice("error_message")
          [] T.pc = "s_post_already"  -> Notice("already_processing")
          [] T.pc = "s_post_started"  ->
                Ev("notice", "processing_started",
                   Len(keyword_batches[T.batch].keywords), 0, T.batch)
          [] T.pc = "s_err"           -> Notice("error_message")
          [] T.pc = "r_post1"         -> Ev("notice", "processing_step", 1, TotalSteps, "")
          [] T.pc = "r_post2"         -> Ev("notice", "processing_step", 2, TotalSteps, "")
          [] T.pc = "r_post3"         -> Ev("notice", "processing_step", 3, TotalSteps, "")
          [] T.pc = "r_post4"         -> Ev("notice", "processing_step", 4, TotalSteps, "")
          [] T.pc = "r_post_done"     ->
                Ev("notice", "processing_completed",
                   Len(T.groups), Len(T.ideas), T.report.download_url)
          [] T.pc = "r_post_email"    -> Notice("email_sent")
          [] T.pc = "x_post"          -> Ev("notice", "processing_failed", 0, 0, T.batch)

PostReturns(t) ==
    LET T == tasks[t]
    IN  CASE T.pc \in {"h_post_usage", "h_post_notfound", "h_post_unauth",
                       "h_err", "s_post_already", "s_err", "x_post"} -> "done"
          [] T.pc = "s_post_started" -> "r_update"   \* asyncio.create_task
          [] T.pc = "r_post1"        -> "r_group"
          [] T.pc = "r_post2"        -> "r_outline"
          [] T.pc = "r_post3"        -> "r_ideas"
          [] T.pc = "r_post4"        -> "r_report"
          [] T.pc = "r_post_done"    ->
                IF T.report.email_sent THEN "r_post_email" ELSE "r_release"
          [] T.pc = "r_post_email"   -> "r_release"

PostRaises(t) ==
    LET T == tasks[t]
    IN  CASE T.pc \in {"h_post_usage", "h_post_notfound", "h_post_unauth", "s_err"} -> "h_err"
          [] T.pc \in {"s_post_already", "s_post_started"} -> "s_err"
          [] T.pc \in {"h_err", "x_post"} -> "raised"
          [] T.pc \in {"r_post1", "r_post2", "r_post3", "r_post4",
                       "r_post_done", "r_post_email"} -> "x_update"

\* await client.chat_postMessage(...)
chat_postMessage(t, ok) ==
    /\ tasks[t].pc \in PostPcs
    /\ tasks' = [tasks EXCEPT
                   ![t].pc = IF ok THEN PostReturns(t) ELSE PostRaises(t),
                   ![t].log = IF ok THEN Log(t, PostNotice(t)) ELSE @,
                   ![t].failed_at = IF ~ok /\ PostRaises(t) = "x_update"
                                    THEN tasks[t].pc ELSE @,
                   ![t].i = IF ok /\ tasks[t].pc = "r_post2" THEN 1 ELSE @]
    /\ UNCHANGED <<store, cache, g_in, g_out, rest>>

\* db.update_keyword_batch(batch_id, {"status": status})
update_keyword_batch(batch_id, status) ==
    [keyword_batches EXCEPT ![batch_id].status = status]

\* _process_batch_background: status = processing
mark_processing(t, ok) ==
    /\ tasks[t].pc = "r_update"
    /\ keyword_batches' = IF ok THEN update_keyword_batch(tasks[t].batch, "processing")
                          ELSE keyword_batches
    /\ tasks' = IF ok THEN Go(t, "r_post1") ELSE Raise(t)
    /\ UNCHANGED <<keyword_groups, outlines, cache, g_in, g_out, rest>>

\* step 1: groups = await self.keyword_grouper.group_keywords(batch["keywords"])
run_group_keywords(t, o) ==
    /\ tasks[t].pc = "r_group"
    /\ LET groups == group_keywords(keyword_batches[tasks[t].batch].keywords,
                                    DefaultMaxGroups, o)
       IN  tasks' = [tasks EXCEPT
                       ![t].groups = groups,
                       ![t].i = 1,
                       ![t].pc = IF groups = <<>> THEN "r_post2" ELSE "r_save",
                       ![t].log = Log(t, Ev("stage", "group_keywords", Len(groups), 0, ""))]
    /\ UNCHANGED <<store, cache, g_in, g_out, rest>>

\* the id the store generates for the n-th row of a table
row_id(n) == <<"row", n>>

\* db.create_keyword_group: the row as the store keeps it, with a generated id
create_keyword_group(batch_id, group) ==
    Append(keyword_groups,
           [id |-> row_id(Len(keyword_groups) + 1), batch_id |-> batch_id,
            keywords |-> group.keywords, similarity_score |-> group.score])

\* save_group leaving the loop after the first group
save_group_first_only(t, ok) ==
    /\ tasks[t].pc = "r_save"
    /\ LET T == tasks[t]
       IN  IF ok
           THEN /\ keyword_groups' = create_keyword_group(T.batch, T.groups[T.i])
                /\ tasks' = [tasks EXCEPT
                               ![t].i = T.i + 1,
                               ![t].pc = "r_post2",
                               ![t].log = Log(t, Ev("stage", "create_keyword_group", T.i, 0, ""))]
           ELSE /\ keyword_groups' = keyword_groups
                /\ tasks' = Raise(t)
    /\ UNCHANGED <<keyword_batches, outlines, cache, g_in, g_out, rest>>

\* step 1: for group in groups: await self.db.create_keyword_group(...)
save_group(t, ok) ==
    /\ tasks[t].pc = "r_save"
    /\ LET T == tasks[t]
       IN  IF ok
           THEN /\ keyword_groups' = create_keyword_group(T.batch, T.groups[T.i])
                /\ tasks' = [tasks EXCEPT
                               ![t].i = T.i + 1,
                               ![t].pc = IF T.i = Len(T.groups) THEN "r_post2" ELSE "r_save",
                               ![t].log = Log(t, Ev("stage", "create_keyword_group", T.i, 0, ""))]
           ELSE /\ keyword_groups' = keyword_groups
                /\ tasks' = Raise(t)
    /\ UNCHANGED <<keyword_batches, outlines, cache, g_in, g_out, rest>>

\* db.create_outline({"group_id": group["id"], "outline_data": outline})
create_outline(group) ==
    Append(outlines, [group_id |-> group.id, target_keywords |-> group.keywords,
                      updates |-> 0])

\* step 2: outline = generate_outline(group["keywords"]); create_outline(...)
save_outline(t, ok) ==
    /\ tasks[t].pc = "r_outline"
    /\ LET T == tasks[t]
           log == Log(t, Ev("stage", "generate_outline", T.i, 0, ""))
       IN  IF T.i > Len(T.groups)
           THEN /\ tasks' = Go(t, "r_post3")
                /\ outlines' = outlines
           ELSE IF ok
           THEN /\ outlines' = create_outline(T.groups[T.i])
                /\ tasks' = [tasks EXCEPT
                               ![t].i = T.i + 1,
                               ![t].pc = IF T.i = Len(T.groups) THEN "r_post3" ELSE "r_outline",
                               ![t].log = log]
           ELSE /\ outlines' = outlines
                /\ tasks' = [tasks EXCEPT ![t].pc = "x_update", ![t].log = log,
                                           ![t].failed_at = "r_outline"]
    /\ UNCHANGED <<keyword_batches, keyword_groups, cache, g_in, g_out, rest>>

\* PostIdeaGenerator.generate_ideas: one idea per content type for each group
generate_ideas(groups) ==
    [j \in 1..(IdeasPerGroup * Len(groups)) |->
       [group_id |-> groups[((j - 1) \div IdeasPerGroup) + 1].id,
        content_type |-> ((j - 1) % IdeasPerGroup) + 1]]

\* step 3: post_ideas = await self.idea_generator.generate_ideas(groups)
run_generate_ideas(t) ==
    /\ tasks[t].pc = "r_ideas"
    /\ tasks' = [tasks EXCEPT
                   ![t].ideas = generate_ideas(tasks[t].groups),
                   ![t].pc = "r_post4",
                   ![t].log = Log(t, Ev("stage", "generate_ideas", Len(tasks[t].groups), 0, ""))]
    /\ UNCHANGED <<store, cache, g_in, g_out, rest>>

\* the report sink: render(batchId, groups, ideas) -> {downloadUrl, emailSent}
generate_report(batch_id, groups, ideas, email_sent) ==
    [download_url |-> batch_id, email_sent |-> email_sent]

\* step 4: report = await self.pdf_generator.generate_report(batch_id, groups, post_ideas)
run_generate_report(t, ok, email_sent) ==
    /\ tasks[t].pc = "r_report"
    /\ LET T == tasks[t]
       IN  tasks' = [tasks EXCEPT
                       ![t].report = IF ok THEN generate_report(T.batch, T.groups, T.ideas, email_sent)
                                     ELSE @,
                       ![t].pc = IF ok THEN "r_complete" ELSE "x_update",
                       ![t].failed_at = IF ok THEN @ ELSE "r_report",
                       ![t].log = Log(t, Ev("stage", "generate_report", 0, 0, ""))]
    /\ UNCHANGED <<store, cache, g_in, g_out, rest>>

\* mark_completed issued too early: the status is set to completed while
\* the report stage has not returned yet
mark_completed_eagerly(t, ok) ==
    /\ tasks[t].pc \in {"r_complete", "r_report"}
    /\ keyword_batches' = IF ok THEN update_keyword_batch(tasks[t].batch, "completed")
                          ELSE keyword_batches
    /\ tasks' = IF ok THEN Go(t, "r_post_done") ELSE Raise(t)
    /\ UNCHANGED <<keyword_groups, outlines, cache, g_in, g_out, rest>>

\* status = completed, completed_at = now()
mark_completed(t, ok) ==
    /\ tasks[t].pc = "r_complete"
    /\ keyword_batches' = IF ok THEN update_keyword_batch(tasks[t].batch, "completed")
                          ELSE keyword_batches
    /\ tasks' = IF ok THEN Go(t, "r_post_done") ELSE Raise(t)
    /\ UNCHANGED <<keyword_groups, outlines, cache, g_in, g_out, rest>>

\* success path: await self.cache.delete(f"processing:{batch_id}")
release_lock(t) ==
    /\ tasks[t].pc = "r_release"
    /\ cache' = cache_delete(lock_key(tasks[t].batch))
    /\ tasks' = [tasks EXCEPT ![t].pc = "done", ![t].deleted_lock = TRUE]
    /\ UNCHANGED <<store, g_in, g_out, rest>>

\* except Exception: await self.db.update_keyword_batch(batch_id, {"status": "failed"})
mark_failed(t, ok) ==
    /\ tasks[t].pc = "x_update"
    /\ keyword_batches' = IF ok THEN update_keyword_batch(tasks[t].batch, "failed")
                          ELSE keyword_batches
    /\ tasks' = Go(t, IF ok THEN "x_release" ELSE "raised")
    /\ UNCHANGED <<keyword_groups, outlines, cache, g_in, g_out, rest>>

\* except Exception: await self.cache.delete(f"processing:{batch_id}")
release_lock_on_failure(t) ==
    /\ tasks[t].pc = "x_release"
    /\ cache' = cache_delete(lock_key(tasks[t].batch))
    /\ tasks' = [tasks EXCEPT ![t].pc = "x_post", ![t].deleted_lock = TRUE]
    /\ UNCHANGED <<store, g_in, g_out, rest>>

\* Tick on a server that never lets the TTL of a key run out
Tick_without_expiry ==
    /\ \E k \in Keys : cache_exists(k)
    /\ cache' = [k \in Keys |->
                   IF cache[k].ttl > TickSeconds THEN expire(TickSeconds)[k] ELSE cache[k]]
    /\ UNCHANGED <<store, tasks, g_in, g_out, rest>>

\* Redis key expiry: TickSeconds pass
Tick ==
    /\ \E k \in Keys : cache_exists(k)
    /\ cache' = expire(TickSeconds)
    /\ UNCHANGED <<store, tasks, g_in, g_out, rest>>

Next ==
    \/ \E t \in Tasks, u \in Users, text \in BatchIds \cup {"", "nope"}, ok \in BOOLEAN :
          handle_process_command(t, u, text, ok)
    \/ \E t \in Tasks : check_processing_lock(t)
    \/ \E t \in Tasks : set_processing_key(t)
    \/ \E t \in Tasks, ok \in BOOLEAN : chat_postMessage(t, ok)
    \/ \E t \in Tasks, ok \in BOOLEAN : mark_processing(t, ok)
    \/ \E t \in Tasks :
          /\ tasks[t].pc = "r_group"
          /\ \E o \in Outcomes(keyword_batches[tasks[t].batch].keywords, DefaultMaxGroups) :
                run_group_keywords(t, o)
    \/ \E t \in Tasks, ok \in BOOLEAN : save_group(t, ok)
    \/ \E t \in Tasks, ok \in BOOLEAN : save_outline(t, ok)
    \/ \E t \in Tasks : run_generate_ideas(t)
    \/ \E t \in Tasks, ok, email_sent \in BOOLEAN : run_generate_report(t, ok, email_sent)
    \/ \E t \in Tasks, ok \in BOOLEAN : mark_completed(t, ok)
    \/ \E t \in Tasks : release_lock(t)
    \/ \E t \in Tasks, ok \in BOOLEAN : mark_failed(t, ok)
    \/ \E t \in Tasks : release_lock_on_failure(t)
    \/ Tick

Spec == Init /\ [][Next]_vars

\* Tick is the passing of time on the Redis server: it cannot be put off for ever
LiveSpec == Spec /\ WF_vars(Tick)

\* the next step of the coroutine of task t once its command has arrived
Proceed(t) ==
    \/ check_processing_lock(t)
    \/ set_processing_key(t)
    \/ \E ok \in BOOLEAN : chat_postMessage(t, ok)
    \/ \E ok \in BOOLEAN : mark_processing(t, ok)
    \/ /\ tasks[t].pc = "r_group"
       /\ \E o \in Outcomes(keyword_batches[tasks[t].batch].keywords, DefaultMaxGroups) :
             run_group_keywords(t, o)
    \/ \E ok \in BOOLEAN : save_group(t, ok)
    \/ \E ok \in BOOLEAN : save_outline(t, ok)
    \/ run_generate_ideas(t)
    \/ \E ok, email_sent \in BOOLEAN : run_generate_report(t, ok, email_sent)
    \/ \E ok \in BOOLEAN : mark_completed(t, ok)
    \/ release_lock(t)
    \/ \E ok \in BOOLEAN : mark_failed(t, ok)
    \/ release_lock_on_failure(t)

\* the event loop runs every coroutine that can proceed: every awaited call
\* returns or raises in the end, and time passes on the Redis server
FairSpec == Spec /\ WF_vars(Tick) /\ \A t \in Tasks : WF_vars(Proceed(t))

\* ------------------------------------------- /keywords and the rate limit

\* check_rate_limit that lets a request through when the counter is at the limit
check_rate_limit_one_more(user_id) ==
    LET key == rate_limit_key(user_id)
        current == cache_get(key)
    IN  IF current = <<>>
        THEN [ok |-> TRUE, cache |-> cache_set(key, 1, RateLimitTTL)]
        ELSE IF current[1] > RateLimitMax
        THEN [ok |-> FALSE, cache |-> cache]
        ELSE [ok |-> TRUE, cache |-> cache_increment(key, 1)]

\* check_rate_limit that counts the requests it rejects as well
check_rate_limit_counting_rejected(user_id) ==
    LET key == rate_limit_key(user_id)
        current == cache_get(key)
    IN  IF current = <<>>
        THEN [ok |-> TRUE, cache |-> cache_set(key, 1, RateLimitTTL)]
        ELSE [ok |-> current[1] < RateLimitMax, cache |-> cache_increment(key, 1)]

\* _check_rate_limit(user_id): the verdict and the cache it leaves
check_rate_limit(user_id) ==
    LET key == rate_limit_key(user_id)
        current == cache_get(key)
    IN  IF current = <<>>
        THEN [ok |-> TRUE, cache |-> cache_set(key, 1, RateLimitTTL)]
        ELSE IF current[1] >= RateLimitMax
        THEN [ok |-> FALSE, cache |-> cache]
        ELSE [ok |-> TRUE, cache |-> cache_increment(key, 1)]

\* ids the store gives the batches created by /keywords
NewBatchIds == <<"b2", "b3", "b4", "b5">>

\* command texts: nothing, "upload", "paste", or pasted keywords
Texts == {"", "upload", "paste", "pasted"}

\* what parse_keywords returns for a pasted text
ParsedLists == {<<>>, <<"seo tips", "seo tools">>}

\* how many /keywords commands a user issues in one behaviour
RequestBudget(user_id) == IF user_id = "u1" THEN MaxRequests ELSE MaxOthers

\* a rate-limit decision as the history keeps it
Decision(accepted, fresh) == [accepted |-> accepted, fresh |-> fresh, age |-> 0]

\* handle_keywords_command up to its first chat post or store write; the
\* cache calls of _check_rate_limit are made without a suspension point in
\* between, and the commands of a user are handled one after the other
handle_keywords_command(user_id, text, keywords) ==
    /\ kw.pc \in {"idle", "done", "raised"}
    /\ kw.issued[user_id] < RequestBudget(user_id)
    /\ (text = "pasted" /\ keywords # <<>>) => kw.created < MaxBatches
    /\ LET verdict == check_rate_limit(user_id)
           pc == IF ~verdict.ok THEN "k_post_rate"
                 ELSE IF text \in {"", "upload"} THEN "k_post_upload"
                 ELSE IF text = "paste" THEN "k_post_paste"
                 ELSE IF keywords = <<>> THEN "k_post_nokw"
                 ELSE "k_create"
       IN  /\ cache' = verdict.cache
           /\ kw' = [kw EXCEPT !.pc = pc, !.user = user_id, !.log = <<>>,
                               !.rejected = ~verdict.ok,
                               !.issued[user_id] = @ + 1]
           /\ history' = [history EXCEPT ![user_id] =
                            Append(@, Decision(verdict.ok,
                                               cache_get(rate_limit_key(user_id)) = <<>>))]
    /\ UNCHANGED <<store, tasks, g_in, g_out, regen, cleaner, more, lock_setter>>

\* db.create_keyword_batch({... "status": "uploaded" ...})
create_keyword_batch(batch_id, user_id, keywords) ==
    [b \in DOMAIN keyword_batches \cup {batch_id} |->
       IF b = batch_id
       THEN [user_id |-> user_id, status |-> "uploaded", keywords |-> keywords]
       ELSE keyword_batches[b]]

\* _process_keywords_from_text: batch = await self.db.create_keyword_batch(...)
save_keyword_batch(ok, keywords) ==
    /\ kw.pc = "k_create"
    /\ keywords # <<>>
    /\ IF ok
       THEN /\ keyword_batches' =
                 create_keyword_batch(NewBatchIds[kw.created + 1], kw.user, keywords)
            /\ kw' = [kw EXCEPT !.pc = "k_post_uploaded", !.created = @ + 1]
       ELSE /\ keyword_batches' = keyword_batches
            /\ kw' = [kw EXCEPT !.pc = "k_err_inner"]
    /\ UNCHANGED <<keyword_groups, outlines, cache, tasks, g_in, g_out, history, regen, cleaner, more, lock_setter>>

KeywordsPostPcs == {"k_post_rate", "k_post_upload", "k_post_paste", "k_post_nokw",
                    "k_post_uploaded", "k_err_inner", "k_err"}

KeywordsNotice ==
    CASE kw.pc = "k_post_rate"     -> Notice("rate_limit_exceeded")
      [] kw.pc = "k_post_upload"   -> Notice("upload_instructions")
      [] kw.pc = "k_post_paste"    -> Notice("paste_instructions")
      [] kw.pc = "k_post_nokw"     -> Notice("no_keywords_found")
      [] kw.pc = "k_post_uploaded" ->
            Ev("notice", "keywords_uploaded",
               Len(keyword_batches[NewBatchIds[kw.created]].keywords), 0,
               NewBatchIds[kw.created])
      [] kw.pc \in {"k_err_inner", "k_err"} -> Notice("error_message")

\* where a raising post leaves the handler: the except clause of
\* _process_keywords_from_text, then the one of handle_keywords_command
KeywordsPostRaises ==
    CASE kw.pc \in {"k_post_nokw", "k_post_uploaded"} -> "k_err_inner"
      [] kw.pc \in {"k_post_rate", "k_post_upload", "k_post_paste", "k_err_inner"} -> "k_err"
      [] kw.pc = "k_err" -> "raised"

\* await client.chat_postMessage(...) in the /keywords handler
keywords_chat_postMessage(ok) ==
    /\ kw.pc \in KeywordsPostPcs
    /\ kw' = [kw EXCEPT !.pc = IF ok THEN "done" ELSE KeywordsPostRaises,
                        !.log = IF ok THEN Append(@, KeywordsNotice) ELSE @]
    /\ UNCHANGED <<store, cache, tasks, g_in, g_out, history, regen, cleaner, more, lock_setter>>

\* half a rate-limit window
HalfWindow == RateLimitTTL \div 2

RECURSIVE Aged(_, _)
Aged(decisions, seconds) ==
    IF decisions = <<>> THEN <<>>
    ELSE IF Head(decisions).age + seconds >= RateLimitTTL
         THEN Aged(Tail(decisions), seconds)
         ELSE <<[Head(decisions) EXCEPT !.age = @ + seconds]>>
              \o Aged(Tail(decisions), seconds)

\* HalfWindow seconds pass: keys expire, decisions older than 15 minutes
\* leave the history
Elapse ==
    /\ \/ \E k \in Keys : cache_exists(k)
       \/ \E u \in Users : history[u] # <<>>
    /\ cache' = expire(HalfWindow)
    /\ history' = [u \in Users |-> Aged(history[u], HalfWindow)]
    /\ UNCHANGED <<store, tasks, g_in, g_out, kw, regen, cleaner, more, lock_setter>>

RateNext ==
    \/ \E u \in Users, text \in Texts, keywords \in ParsedLists :
          handle_keywords_command(u, text, keywords)
    \/ \E ok \in BOOLEAN, keywords \in ParsedLists : save_keyword_batch(ok, keywords)
    \/ \E ok \in BOOLEAN : keywords_chat_postMessage(ok)
    \/ Elapse

RateSpec == Init /\ [][RateNext]_vars

\* ----------------------- _check_rate_limit, one cache call after the other

\* current = await self.cache.get(key)
check_rate_limit_get(user_id) ==
    /\ rl.pc \in {"idle", "returned"}
    /\ rl.issued < MaxChecks
    /\ rl' = [pc |-> "got", user |-> user_id,
              current |-> cache_get(rate_limit_key(user_id)),
              ok |-> TRUE, issued |-> rl.issued + 1]
    /\ UNCHANGED <<store, cache, tasks, g_in, g_out, rate, regen, cleaner, parser, f,
                   post_ideas, lock_setter>>

\* the rest of _check_rate_limit, decided on the value the get returned
check_rate_limit_decide ==
    /\ rl.pc = "got"
    /\ LET key == rate_limit_key(rl.user)
       IN  IF rl.current = <<>>
           THEN /\ cache' = cache_set(key, 1, RateLimitTTL)
                /\ rl' = [rl EXCEPT !.pc = "returned", !.ok = TRUE]
           ELSE IF rl.current[1] >= RateLimitMax
           THEN /\ cache' = cache
                /\ rl' = [rl EXCEPT !.pc = "returned", !.ok = FALSE]
           ELSE /\ cache' = cache_increment(key, 1)
                /\ rl' = [rl EXCEPT !.pc = "returned", !.ok = TRUE]
    /\ UNCHANGED <<store, tasks, g_in, g_out, rate, regen, cleaner, parser, f,
                   post_ideas, lock_setter>>

RaceNext ==
    \/ \E u \in Users : check_rate_limit_get(u)
    \/ check_rate_limit_decide
    \/ Elapse

RaceSpec == Init /\ [][RaceNext]_vars

\* ------------------------------------------------------------ /regenerate

\* handle_regenerate_command up to its first chat post or the call of
\* _regenerate_outlines; denied records which of the two tests of
\* "not batch or batch["user_id"] != user_id" turned the request down
handle_regenerate_command(user_id, text, read_ok) ==
    /\ regen.pc \in {"idle", "done", "raised"}
    /\ regen.issued < MaxRegens
    /\ LET batch == get_keyword_batch(text, read_ok)
           denied == IF text = "" THEN "usage"
                     ELSE IF batch = NoBatch THEN "missing"
                     ELSE IF keyword_batches[batch].user_id # user_id THEN "unauthorized"
                     ELSE ""
           pc == IF text = "" THEN "g_post_usage"
                 ELSE IF batch = NoBatch \/ keyword_batches[batch].user_id # user_id
                 THEN "g_post_notfound"
                 ELSE "g_groups"
       IN  regen' = [pc |-> pc, user |-> user_id,
                     batch |-> IF batch = NoBatch THEN "" ELSE batch,
                     denied |-> denied, log |-> <<>>, groups |-> <<>>, i |-> 0,
                     issued |-> regen.issued + 1]
    /\ UNCHANGED <<store, cache, tasks, g_in, g_out, rate, cleaner, more, lock_setter>>

\* db.get_keyword_groups_by_batch: the rows of the batch, [] when the read fails
get_keyword_groups_by_batch(batch_id, read_ok) ==
    IF read_ok THEN SelectSeq(keyword_groups, LAMBDA row : row.batch_id = batch_id)
    ELSE <<>>

\* _regenerate_outlines: groups = await self.db.get_keyword_groups_by_batch(batch_id)
load_groups(read_ok) ==
    /\ regen.pc = "g_groups"
    /\ LET groups == get_keyword_groups_by_batch(regen.batch, read_ok)
       IN  regen' = [regen EXCEPT !.groups = groups, !.i = 1,
                                  !.pc = IF groups = <<>> THEN "g_post_nogroups"
                                         ELSE "g_post_started"]
    /\ UNCHANGED <<store, cache, tasks, g_in, g_out, rate, cleaner, more, lock_setter>>

\* the outline rows an update ... .eq('group_id', group_id) matches
MatchedOutlines(group_id) == {r \in DOMAIN outlines : outlines[r].group_id = group_id}

\* db.update_outline(group_id, {"outline_data": outline}): the rows as the
\* store keeps them afterwards
update_outline(group_id) ==
    [r \in DOMAIN outlines |->
       IF r \in MatchedOutlines(group_id)
       THEN [outlines[r] EXCEPT !.updates = @ + 1]
       ELSE outlines[r]]

\* regenerate_outline that also puts the batch back to processing
regenerate_outline_marking(ok) ==
    /\ regen.pc = "g_update"
    /\ LET group == regen.groups[regen.i]
           log == Append(regen.log, Ev("stage", "generate_outline", regen.i, 0, ""))
       IN  IF ok /\ MatchedOutlines(group.id) # {}
           THEN /\ outlines' = update_outline(group.id)
                /\ regen' = [regen EXCEPT !.log = log, !.i = @ + 1,
                                !.pc = IF regen.i = Len(regen.groups)
                                       THEN "g_post_completed" ELSE "g_update"]
           ELSE /\ outlines' = outlines
                /\ regen' = [regen EXCEPT !.log = log, !.pc = "g_err"]
    /\ keyword_batches' = update_keyword_batch(regen.batch, "processing")
    /\ UNCHANGED <<keyword_groups, cache, tasks, g_in, g_out, rate, cleaner, more, lock_setter>>

\* _regenerate_outlines: outline = generate_outline(group["keywords"]);
\* update_outline(group["id"], ...), which raises when the store fails or
\* returns no updated row
regenerate_outline(ok) ==
    /\ regen.pc = "g_update"
    /\ LET group == regen.groups[regen.i]
           log == Append(regen.log, Ev("stage", "generate_outline", regen.i, 0, ""))
       IN  IF ok /\ MatchedOutlines(group.id) # {}
           THEN /\ outlines' = update_outline(group.id)
                /\ regen' = [regen EXCEPT !.log = log, !.i = @ + 1,
                                !.pc = IF regen.i = Len(regen.groups)
                                       THEN "g_post_completed" ELSE "g_update"]
           ELSE /\ outlines' = outlines
                /\ regen' = [regen EXCEPT !.log = log, !.pc = "g_err"]
    /\ UNCHANGED <<keyword_batches, keyword_groups, cache, tasks, g_in, g_out, rate, cleaner, more, lock_setter>>

RegeneratePostPcs == {"g_post_usage", "g_post_notfound", "g_post_nogroups",
                      "g_post_started", "g_post_completed", "g_err", "g_err_outer"}

RegenerateNotice ==
    CASE regen.pc = "g_post_usage"     -> Notice("regenerate_usage")
      [] regen.pc = "g_post_notfound"  -> Notice("batch_not_found")
      [] regen.pc = "g_post_nogroups"  -> Notice("no_groups_found")
      [] regen.pc = "g_post_started"   -> Ev("notice", "regeneration_started", 0, 0, regen.batch)
      [] regen.pc = "g_post_completed" -> Ev("notice", "regeneration_completed", 0, 0, regen.batch)
      [] regen.pc \in {"g_err", "g_err_outer"} -> Notice("error_message")

RegeneratePostReturns ==
    IF regen.pc = "g_post_started" THEN "g_update" ELSE "done"

\* where a raising post leaves the handler: the except clause of
\* _regenerate_outlines, then the one of handle_regenerate_command
RegeneratePostRaises ==
    CASE regen.pc \in {"g_post_nogroups", "g_post_started", "g_post_completed"} -> "g_err"
      [] regen.pc \in {"g_post_usage", "g_post_notfound", "g_err"} -> "g_err_outer"
      [] regen.pc = "g_err_outer" -> "raised"

\* await client.chat_postMessage(...) in the /regenerate handler
regenerate_chat_postMessage(ok) ==
    /\ regen.pc \in RegeneratePostPcs
    /\ regen' = [regen EXCEPT
                   !.pc = IF ok THEN RegeneratePostReturns ELSE RegeneratePostRaises,
                   !.log = IF ok THEN Append(@, RegenerateNotice) ELSE @]
    /\ UNCHANGED <<store, cache, tasks, g_in, g_out, rate, cleaner, more, lock_setter>>

\* the /process requests issued next to /regenerate
OneTask == {1}

RegenNext ==
    \/ \E t \in OneTask, u \in Users, text \in BatchIds \cup {"", "nope"}, ok \in BOOLEAN :
          handle_process_command(t, u, text, ok)
    \/ \E t \in OneTask : check_processing_lock(t)
    \/ \E t \in OneTask : set_processing_key(t)
    \/ \E t \in OneTask, ok \in BOOLEAN : chat_postMessage(t, ok)
    \/ \E t \in OneTask, ok \in BOOLEAN : mark_processing(t, ok)
    \/ \E t \in OneTask :
          /\ tasks[t].pc = "r_group"
          /\ \E o \in Outcomes(keyword_batches[tasks[t].batch].keywords, DefaultMaxGroups) :
                run_group_keywords(t, o)
    \/ \E t \in OneTask, ok \in BOOLEAN : save_group(t, ok)
    \/ \E t \in OneTask, ok \in BOOLEAN : save_outline(t, ok)
    \/ \E t \in OneTask : run_generate_ideas(t)
    \/ \E t \in OneTask, ok, email_sent \in BOOLEAN : run_generate_report(t, ok, email_sent)
    \/ \E t \in OneTask, ok \in BOOLEAN : mark_completed(t, ok)
    \/ \E t \in OneTask : release_lock(t)
    \/ \E t \in OneTask, ok \in BOOLEAN : mark_failed(t, ok)
    \/ \E t \in OneTask : release_lock_on_failure(t)
    \/ Tick
    \/ \E u \in Users, text \in BatchIds \cup {"", "nope"}, ok \in BOOLEAN :
          handle_regenerate_command(u, text, ok)
    \/ \E ok \in BOOLEAN : load_groups(ok)
    \/ \E ok \in BOOLEAN : regenerate_outline(ok)
    \/ \E ok \in BOOLEAN : regenerate_chat_postMessage(ok)

RegenSpec == Init /\ [][RegenNext]_vars

\* ---------------------------------------------- group_keywords on its own

GroupInit ==
    /\ PipelineInit
    /\ g_in \in [keywords : KeywordLists, max_groups : MaxGroupsSettings]
    /\ g_out = NotCalled
    /\ k_in = <<>>
    /\ k_out = NotCleaned
    /\ p_in = <<>>
    /\ p_out = NotParsed
    /\ f = NoFilter

\* KeywordGrouper.group_keywords(keywords) under one outcome of the model,
\* the embedding and KMeans
call_group_keywords(o) ==
    /\ ~g_out.called
    /\ g_out' = [called |-> TRUE,
                 groups |-> group_keywords(g_in.keywords, g_in.max_groups, o),
                 o |-> o]
    /\ UNCHANGED <<store, cache, tasks, g_in, rest>>

GroupNext ==
    \E o \in Outcomes(g_in.keywords, g_in.max_groups) : call_group_keywords(o)

GroupSpec == GroupInit /\ [][GroupNext]_vars

\* ------------------------------------------------ _clean_keyword on its own

CleanInit ==
    /\ PipelineInit
    /\ g_in = [keywords |-> <<>>, max_groups |-> DefaultMaxGroups]
    /\ g_out = NotCalled
    /\ k_in \in Strings
    /\ k_out = NotCleaned
    /\ p_in = <<>>
    /\ p_out = NotParsed
    /\ f = NoFilter

\* _clean_keyword(keyword), and _clean_keyword of what it returned
call_clean_keyword ==
    /\ ~k_out.called
    /\ k_out' = [called |-> TRUE, once |-> clean_keyword(k_in),
                 twice |-> clean_keyword(clean_keyword(k_in))]
    /\ UNCHANGED <<store, cache, tasks, g_in, g_out, rate, regen, k_in, more, lock_setter>>

CleanNext == call_clean_keyword

CleanSpec == CleanInit /\ [][CleanNext]_vars

\* ------------------------------------------------ parse_keywords on its own

\* fragments of a pasted text: keywords, a repeat in other case and with
\* punctuation, a stop word, a number, nothing
Fragments == {<<"a", "a">>, <<" ", "n", "n">>, <<" ", "n", "a">>,
              <<" ", "A", "a", "!">>, <<"a", " ", "!", " ", "a">>,
              <<"a", "n">>, <<"1", "1">>, <<" ">>, <<>>}

RECURSIVE Join(_, _)
Join(pieces, delimiter) ==
    IF pieces = <<>> THEN <<>>
    ELSE IF Len(pieces) = 1 THEN pieces[1]
    ELSE pieces[1] \o <<delimiter>> \o Join(Tail(pieces), delimiter)

\* every text of up to MaxText characters, and the texts of up to
\* MaxFragments fragments joined by one delimiter
ParseTexts ==
    UNION {[1..n -> TextChars] : n \in 0..MaxText}
    \cup {Join(pieces, delimiters[d]) :
            pieces \in UNION {[1..n -> Fragments] : n \in 1..MaxFragments},
            d \in DOMAIN delimiters}

ParseInit ==
    /\ PipelineInit
    /\ g_in = [keywords |-> <<>>, max_groups |-> DefaultMaxGroups]
    /\ g_out = NotCalled
    /\ k_in = <<>>
    /\ k_out = NotCleaned
    /\ p_in \in ParseTexts
    /\ p_out = NotParsed
    /\ f = NoFilter

\* KeywordProcessor.parse_keywords(text)
call_parse_keywords ==
    /\ ~p_out.called
    /\ p_out' = [called |-> TRUE, keywords |-> parse_keywords(p_in)]
    /\ UNCHANGED <<store, cache, tasks, g_in, g_out, rate, regen, cleaner, p_in, f,
                   post_ideas, rl, lock_setter>>

ParseNext == call_parse_keywords

ParseSpec == ParseInit /\ [][ParseNext]_vars

\* --------------------------------------- filter_similar_keywords on its own

FilterKeywords == {<<"content", "marketing">>, <<"content", "marketing", "strategy">>,
                   <<"content", "strategy">>, <<"marketing", "seo">>,
                   <<"content", "seo">>, <<"Content", "marketing">>, <<>>}

\* thresholds in tenths: the default 0.8, the 0.5 of the example, a low and
\* the highest one
Thresholds == {3, 5, 8, 10}

DefaultThreshold == 8

FilterInit ==
    /\ PipelineInit
    /\ g_in = [keywords |-> <<>>, max_groups |-> DefaultMaxGroups]
    /\ g_out = NotCalled
    /\ k_in = <<>>
    /\ k_out = NotCleaned
    /\ p_in = <<>>
    /\ p_out = NotParsed
    /\ \E keywords \in UNION {[1..n -> FilterKeywords] : n \in 0..MaxKeywords},
          threshold \in Thresholds :
          f = [keywords |-> keywords, threshold |-> threshold, i |-> 0,
               filtered |-> <<>>]

\* one iteration of "for keyword in keywords" of filter_similar_keywords
filter_next_keyword ==
    /\ f.i < Len(f.keywords)
    /\ f' = [f EXCEPT !.i = f.i + 1,
                      !.filtered = filter_keyword(f.filtered, f.keywords[f.i + 1],
                                                  f.threshold, 1)]
    /\ UNCHANGED <<store, cache, tasks, g_in, g_out, rate, regen, cleaner, parser,
                   post_ideas, rl, lock_setter>>

FilterNext == filter_next_keyword

FilterSpec == FilterInit /\ [][FilterNext]_vars

\* ------------------------------------------------- the fallback path alone

\* lists of n different keywords (n up to MaxFallbackLen), and the lists
\* with repeats of KeywordLists
Names == <<"seo tips", "seo tools", "seo audit", "seo agency", "email marketing",
           "email templates", "email automation", "content calendar",
           "content strategy", "content audit", "link building", "local seo",
           "keyword research", "page speed">>
FallbackLists == {SubSeq(Names, 1, n) : n \in 0..MaxFallbackLen} \cup KeywordLists

\* the outcomes in which the model or the embedding is unavailable, or
\* KMeans is called and raises
FailureOutcomes(keywords, max_groups) ==
    {o \in [model : BOOLEAN, embed : BOOLEAN, kmeans : {"ok", "error"}, labels : {NoLabels}] :
        \/ ~generate_embeddings(o)
        \/ (o.kmeans = "error" /\ n_clusters(keywords, max_groups) > 1)}

FallbackInit ==
    /\ PipelineInit
    /\ g_in \in [keywords : FallbackLists, max_groups : MaxGroupsSettings]
    /\ g_out = NotCalled
    /\ k_in = <<>>
    /\ k_out = NotCleaned
    /\ p_in = <<>>
    /\ p_out = NotParsed
    /\ f = NoFilter

FallbackNext ==
    \E o \in FailureOutcomes(g_in.keywords, g_in.max_groups) : call_group_keywords(o)

FallbackSpec == FallbackInit /\ [][FallbackNext]_vars

\* ------------------------------------------------------------ properties

Status(b) == keyword_batches[b].status
Ended(t) == tasks[t].pc \in {"done", "raised"}
LockHeld(b) == cache_exists(lock_key(b))

\* C1: for every batch at most one pipeline run is active at any time (two
\* /process requests for the same batch never both start a run).
C1_AtMostOneActiveRun ==
    \A b \in BatchIds : Cardinality({t \in Tasks : ActiveRun(t, b)}) <= 1

\* C3: on every exit path that follows setting the lock, the task has deleted
\* the lock key by the time the path ends.
C3_LockReleasedOnEveryExit ==
    \A t \in Tasks : (tasks[t].set_lock /\ Ended(t)) => tasks[t].deleted_lock

\* C4: if an error is raised during the outline stage, then when the run ends
\* the batch's status is failed and the lock key does not exist.
C4_OutlineFailureEndsFailedAndUnlocked ==
    [][\A t \in Tasks :
          (/\ tasks[t].failed_at = "r_outline"
           /\ tasks[t].pc \in RunPcs
           /\ tasks'[t].pc \in {"done", "raised"})
          => (/\ keyword_batches'[tasks[t].batch].status = "failed"
              /\ cache'[lock_key(tasks[t].batch)].ttl = 0)]_vars

AllowedTransitions == {<<"uploaded", "processing">>,
                       <<"processing", "completed">>,
                       <<"processing", "failed">>}

\* C5: the persisted status changes only along uploaded -> processing,
\* processing -> completed and processing -> failed; completed and failed
\* are never left.
C5_StatusTransitions ==
    [][\A b \in BatchIds :
          keyword_batches'[b].status # Status(b)
          => <<Status(b), keyword_batches'[b].status>> \in AllowedTransitions]_vars

\* a run of batch b is active or is being started (lock set, task not yet created)
RunOwnsLock(t, b) ==
    tasks[t].batch = b /\ tasks[t].pc \in RunPcs \cup {"s_post_started"}

\* C10: whenever the lock key of a batch exists, a pipeline run for that
\* batch is active.
C10_LockImpliesActiveRun ==
    \A b \in BatchIds : LockHeld(b) => \E t \in Tasks : RunOwnsLock(t, b)

\* K is an interleaving of the sequences seqs: its positions split into
\* subsequences that are, in input order, the members of each sequence
RECURSIVE Interleaves(_, _)
Interleaves(K, seqs) ==
    IF K = <<>> THEN \A g \in DOMAIN seqs : seqs[g] = <<>>
    ELSE \E g \in DOMAIN seqs :
            /\ seqs[g] # <<>>
            /\ Head(seqs[g]) = Head(K)
            /\ Interleaves(Tail(K), [seqs EXCEPT ![g] = Tail(@)])

MemberLists(groups) == [g \in DOMAIN groups |-> groups[g].keywords]

\* C8: for every keyword list and every outcome of model loading, embedding
\* and clustering, group_keywords returns groups that together contain every
\* position of the list exactly once, each group in input order.
C8_TotalPartition ==
    g_out.called => Interleaves(g_in.keywords, MemberLists(g_out.groups))

\* a clustered result: two groups of score 0.8, the first not a prefix chunk
C8_Witness ==
    /\ g_out.called
    /\ Len(g_in.keywords) = MaxLen
    /\ Len(g_out.groups) = 2
    /\ \A g \in 1..2 : g_out.groups[g].score = 8
    /\ g_out.groups[1].keywords # SubSeq(g_in.keywords, 1, Len(g_out.groups[1].keywords))

\* the task found the lock key present in _start_batch_processing
Rejected(t) ==
    \/ tasks[t].pc = "s_post_already"
    \/ /\ tasks[t].batch # ""
       /\ ~tasks[t].set_lock
       /\ tasks[t].pc \in {"s_err", "h_err", "done", "raised"}

AlreadyProcessing == Notice("already_processing")
ErrorMessage == Notice("error_message")

\* what a request answered with already-processing may change: nothing in
\* the store or the cache, and it never becomes a pipeline run
C2_Frame ==
    \A t \in Tasks :
       (Rejected(t)' /\ tasks'[t] # tasks[t])
       => (/\ store' = store
           /\ cache' = cache
           /\ tasks'[t].pc \notin RunPcs)

Step(n) == Ev("notice", "processing_step", n, TotalSteps, "")
Stage(what, n) == Ev("stage", what, n, 0, "")

\* the progress notices and stage calls of a run, in the order they happened
StageEvents(t) ==
    SelectSeq(tasks[t].log, LAMBDA e : e.kind = "stage" \/ e.what = "processing_step")

\* the order the pipeline prescribes for a run over n groups
PipelineOrder(n) ==
    <<Step(1), Stage("group_keywords", n)>>
    \o [g \in 1..n |-> Stage("create_keyword_group", g)]
    \o <<Step(2)>>
    \o [g \in 1..n |-> Stage("generate_outline", g)]
    \o <<Step(3), Stage("generate_ideas", n), Step(4), Stage("generate_report", 0)>>

IsPrefix(s, q) == Len(s) <= Len(q) /\ SubSeq(q, 1, Len(s)) = s

Happened(t, what) == \E k \in DOMAIN tasks[t].log : tasks[t].log[k].what = what

\* every group of the run of task t is a row of keyword_groups
GroupsPersisted(t) ==
    \A g \in DOMAIN tasks[t].groups :
       \E r \in DOMAIN keyword_groups :
          /\ keyword_groups[r].batch_id = tasks[t].batch
          /\ keyword_groups[r].keywords = tasks[t].groups[g].keywords
          /\ keyword_groups[r].similarity_score = tasks[t].groups[g].score

\* C6: within one run the stages happen in the order group, outline, ideate,
\* report, each after its own progress notice (steps 1 to 4 of 4); no outline
\* is generated before every group of the run is persisted; ideas are
\* generated once, after the outline stage, from the complete list of groups.
C6_StagesInOrder ==
    \A t \in Tasks :
       /\ IsPrefix(StageEvents(t), PipelineOrder(Len(tasks[t].groups)))
       /\ Happened(t, "generate_outline") => GroupsPersisted(t)
       /\ Happened(t, "generate_ideas") =>
             {tasks[t].ideas[j].group_id : j \in DOMAIN tasks[t].ideas}
                = {tasks[t].groups[g].id : g \in DOMAIN tasks[t].groups}

\* a run over two groups went through all four stages
C6_Witness ==
    \E t \in Tasks :
       /\ tasks[t].pc = "done"
       /\ Len(tasks[t].groups) = 2
       /\ StageEvents(t) = PipelineOrder(2)

\* all four stages of the run of task t returned without raising
AllStagesReturned(t) ==
    /\ tasks[t].failed_at = ""
    /\ StageEvents(t) = PipelineOrder(Len(tasks[t].groups))
    /\ tasks[t].report # NoReport

\* C7: a batch's status becomes completed only by a run whose four stages all
\* returned without error, and that run's success notice carries its group
\* count, its idea count and the report's download reference.
C7_CompletedOnlyAfterAllStages ==
    /\ [][\A b \in BatchIds :
            (keyword_batches'[b].status = "completed" /\ Status(b) # "completed")
            => \E t \in Tasks :
                  /\ tasks[t].batch = b
                  /\ tasks[t].pc = "r_complete"
                  /\ tasks'[t].pc = "r_post_done"
                  /\ AllStagesReturned(t)]_vars
    /\ [](\A t \in Tasks : \A k \in DOMAIN tasks[t].log :
            tasks[t].log[k].what = "processing_completed" =>
              /\ tasks[t].log[k].n = Len(tasks[t].groups)
              /\ tasks[t].log[k].m = Len(tasks[t].ideas)
              /\ tasks[t].log[k].m = IdeasPerGroup * Len(tasks[t].groups)
              /\ tasks[t].log[k].ref = tasks[t].report.download_url
              /\ tasks[t].log[k].ref = tasks[t].batch)

\* a run of two groups completed and announced 2 groups and 10 ideas
C7_Witness ==
    \E t \in Tasks :
       /\ tasks[t].pc = "done"
       /\ tasks[t].batch \in BatchIds
       /\ Status(tasks[t].batch) = "completed"
       /\ \E k \in DOMAIN tasks[t].log :
             tasks[t].log[k] = Ev("notice", "processing_completed", 2, 10, tasks[t].batch)

Members(row) == {row.keywords[i] : i \in DOMAIN row.keywords}
RowsOf(b) == {r \in DOMAIN keyword_groups : keyword_groups[r].batch_id = b}
Quiescent(b) == \A t \in Tasks : tasks[t].batch = b => Ended(t)

\* C9: after any sequence of process requests on a batch, its persisted
\* groups partition its keywords: each is non-empty and every keyword is a
\* member of exactly one of them.
C9_PersistedGroupsPartition ==
    \A b \in BatchIds :
       (Status(b) = "completed" /\ Quiescent(b)) =>
          /\ \A r \in RowsOf(b) : keyword_groups[r].keywords # <<>>
          /\ \A i \in DOMAIN keyword_batches[b].keywords :
                Cardinality({r \in RowsOf(b) :
                    keyword_batches[b].keywords[i] \in Members(keyword_groups[r])}) = 1

\* a run that set the lock of its batch ended without deleting it
Crashed(t) == tasks[t].set_lock /\ ~tasks[t].deleted_lock /\ Ended(t)

\* C11: every lock key that is set is eventually absent (when the run that
\* set it never reaches its release step, the key goes when its 1800-second
\* TTL has elapsed), and a /process request that finds the key absent is
\* accepted: it goes on to set the lock and is not answered with
\* already-processing.
C11_LockEventuallyAbsent ==
    /\ \A b \in BatchIds : LockHeld(b) ~> ~LockHeld(b)
    /\ [][\A t \in Tasks :
            (tasks[t].pc = "s_exists" /\ tasks'[t] # tasks[t]
             /\ ~LockHeld(tasks[t].batch))
            => tasks'[t].pc = "s_set"]_vars

\* the lock of a crashed run has expired (nobody deleted it) and a later
\* request for the same batch has been accepted
C11_Witness ==
    \E t1, t2 \in Tasks :
       /\ Crashed(t1)
       /\ \A t \in Tasks : ~tasks[t].deleted_lock
       /\ tasks[t2].batch = tasks[t1].batch
       /\ tasks[t2].pc = "s_set"
       /\ ~LockHeld(tasks[t1].batch)

\* the step is a rate-limit decision for user u
Decides(u) == kw'.issued[u] = kw.issued[u] + 1
Decided(u) == history'[u][Len(history'[u])]

LastFresh(decisions) ==
    LET F == {i \in DOMAIN decisions : decisions[i].fresh}
    IN  IF F = {} THEN 0 ELSE CHOOSE i \in F : \A j \in F : j <= i

\* the decisions of the window in force, the one that opened it included
Window(decisions) ==
    IF LastFresh(decisions) = 0 THEN <<>>
    ELSE SubSeq(decisions, LastFresh(decisions), Len(decisions))

Accepted(u) == {i \in DOMAIN history[u] : history[u][i].accepted}

\* C13: in every interval of 15 minutes at most 10 pipeline-triggering
\* commands of one user are accepted.
C13_SlidingWindowLimit ==
    \A u \in Users : Cardinality(Accepted(u)) <= RateLimitMax

RateLimitNotice == Notice("rate_limit_exceeded")

\* what the handling of a rejected /keywords command may change: nothing in
\* the store (no batch) and nothing in the cache (counter, TTL, locks)
C14_Frame ==
    (kw'.rejected /\ kw' # kw) => (store' = store /\ cache' = cache)

\* C14 as stated: a request rejected by the rate limiter changes neither the
\* store nor the cache, and its outcome is the rate-limit notice.
C14_OnlyRateLimitNotice ==
    /\ [][C14_Frame]_vars
    /\ []((kw.rejected /\ kw.pc \in {"done", "raised"}) => kw.log = <<RateLimitNotice>>)

\* C14 amended: as C14, but the outcome is the rate-limit notice or, when
\* posting it raises, the generic error notice (no notice at all when that
\* post raises as well).
C14_RejectedChangesNothing ==
    /\ [][C14_Frame]_vars
    /\ [](kw.rejected =>
            /\ kw.log \in {<<>>, <<RateLimitNotice>>, <<ErrorMessage>>}
            /\ kw.pc = "done" => kw.log # <<>>
            /\ kw.pc = "raised" => kw.log = <<>>
            /\ kw.pc = "k_err" => kw.log = <<>>)

\* an 11th request was answered with the rate-limit notice, the counter
\* still at 10
C14_Witness ==
    /\ kw.rejected
    /\ kw.pc = "done"
    /\ kw.log = <<RateLimitNotice>>
    /\ cache[rate_limit_key(kw.user)].value = RateLimitMax

NotFoundNotice == Notice("batch_not_found")
Posted(log, notice) == \E k \in DOMAIN log : log[k] = notice

\* what the handling of a request by a user who does not own the batch may
\* change: nothing in the store or the cache, and it never becomes a run
C15_Frame ==
    /\ \A t \in Tasks :
          (tasks'[t].pc = "h_post_unauth" \/ tasks[t].pc = "h_post_unauth")
          => (store' = store /\ cache' = cache /\ tasks'[t].pc \notin RunPcs \cup {"s_set"})
    /\ (regen'.denied = "unauthorized" /\ regen' # regen)
          => (store' = store /\ cache' = cache)

\* C15: a /process or /regenerate request by a user who does not own the
\* existing batch sets no lock, starts no run, writes nothing to the store,
\* and is not answered with the notice given for a batch that does not exist.
C15_UnauthorizedDistinctFromNotFound ==
    /\ [][C15_Frame]_vars
    /\ [][\A t \in Tasks :
            tasks[t].pc = "h_post_unauth" => ~Posted(tasks'[t].log, NotFoundNotice)]_vars
    /\ [](regen.denied = "unauthorized" => ~Posted(regen.log, NotFoundNotice))

\* the conditions under which /regenerate reaches the outline loop: the
\* batch exists, the requester owns it, and it has a persisted group
MayRegenerate ==
    /\ regen.batch \in BatchIds
    /\ keyword_batches[regen.batch].user_id = regen.user
    /\ regen.groups # <<>>
    /\ RowsOf(regen.batch) # {}

\* C16: a step of /regenerate changes neither the cache (the processing lock
\* included) nor the batch rows (status) nor the group rows; it changes
\* outline rows, and calls generate_outline, only when the batch exists, the
\* requester owns it and at least one persisted group exists.
C16_RegenerateOutlinesOnly ==
    /\ [][regen' # regen =>
            /\ cache' = cache
            /\ keyword_batches' = keyword_batches
            /\ keyword_groups' = keyword_groups
            /\ outlines' # outlines => MayRegenerate]_vars
    /\ [](\A k \in DOMAIN regen.log :
            regen.log[k].kind = "stage" => MayRegenerate)

\* /regenerate of a completed batch went through the outline step while the
\* batch stayed completed
C16_Witness ==
    /\ regen.pc = "done"
    /\ Posted(regen.log, Stage("generate_outline", 1))
    /\ Len(regen.groups) = 2
    /\ Status(regen.batch) = "completed"

\* C17: once the last run of a batch has completed (and no /regenerate is
\* under way), every persisted group of the batch has exactly one persisted
\* outline whose group identifier is the group's persisted identifier.
C17_OneOutlinePerPersistedGroup ==
    \A b \in BatchIds :
       (Status(b) = "completed" /\ Quiescent(b) /\ regen.pc \in {"idle", "done", "raised"})
       => \A r \in RowsOf(b) :
             Cardinality(MatchedOutlines(keyword_groups[r].id)) = 1

\* C18: for every keyword list with at most one element group_keywords
\* returns exactly one group, with score 1.0, whose keywords are the list.
C18_DegenerateSingleGroup ==
    (g_out.called /\ Len(g_in.keywords) <= 1) =>
       /\ Len(g_out.groups) = 1
       /\ g_out.groups[1].score = 10
       /\ g_out.groups[1].keywords = g_in.keywords

\* a single keyword was grouped while the embedding model was unavailable
C18_Witness ==
    /\ g_out.called
    /\ Len(g_in.keywords) = 1
    /\ ~g_out.o.model
    /\ g_out.groups = <<[id |-> grouper_id(1), keywords |-> g_in.keywords, score |-> 10]>>

RECURSIVE Concat(_)
Concat(seqs) == IF seqs = <<>> THEN <<>> ELSE Head(seqs) \o Concat(Tail(seqs))

C20_CleanIdempotent ==
    k_out.called => k_out.twice = k_out.once

\* the Keyword invariant: lowercase, no leading or trailing whitespace or
\* hyphen, no run of whitespace, no punctuation but hyphens, 2 to 100
\* characters, a letter in it, not a number, not a stop word
Keyword(k) ==
    /\ \A i \in DOMAIN k : k[i] # "A"
    /\ Len(k) >= 2 /\ Len(k) <= 100
    /\ k[1] \notin {" ", "\t", "-"} /\ k[Len(k)] \notin {" ", "\t", "-"}
    /\ \A i \in 1..(Len(k) - 1) : ~(k[i] \in {" ", "\t"} /\ k[i + 1] \in {" ", "\t"})
    /\ \A i \in DOMAIN k : k[i] \notin {"!", ","}
    /\ \E i \in DOMAIN k : k[i] \in {"a", "n"}
    /\ \E i \in DOMAIN k : k[i] # "1"
    /\ k \notin {<<"a">>, <<"a", "n">>}

\* C21: every string parse_keywords returns satisfies the Keyword invariant.
C21_ParsedKeywordsNormalized ==
    p_out.called => \A j \in DOMAIN p_out.keywords : Keyword(p_out.keywords[j])

\* the maximal pieces of a text that hold none of the given characters
RECURSIVE Pieces(_, _, _)
Pieces(text, separators, piece) ==
    IF text = <<>> THEN <<piece>>
    ELSE IF Head(text) \in separators
         THEN <<piece>> \o Pieces(Tail(text), separators, <<>>)
         ELSE Pieces(Tail(text), separators, Append(piece, Head(text)))

\* the cleaned pieces of a text that pass validation, in the order of the text
Candidates(text) ==
    LET P == Pieces(text, {",", "\t"}, <<>>)
        cleaned == [j \in DOMAIN P |-> clean_keyword(P[j])]
    IN  SelectSeq(cleaned, is_valid_keyword)

\* s keeps exactly the first occurrence of every member of q, in q's order
FirstOccurrences(s, q) ==
    /\ \A i, j \in DOMAIN s : i # j => s[i] # s[j]
    /\ {s[i] : i \in DOMAIN s} = {q[j] : j \in DOMAIN q}
    /\ \A i, j \in DOMAIN s :
          i < j => (CHOOSE a \in DOMAIN q : q[a] = s[i] /\ \A b \in 1..(a - 1) : q[b] # s[i])
                   < (CHOOSE a \in DOMAIN q : q[a] = s[j] /\ \A b \in 1..(a - 1) : q[b] # s[j])

\* C22: parse_keywords returns the cleaned fragments (the text split on
\* every delimiter) that pass validation, each once, in the order of their
\* first occurrence; for an empty or whitespace-only text it returns the
\* empty sequence.
C22_ParseSplitsCleansDedups ==
    p_out.called =>
       /\ FirstOccurrences(p_out.keywords, Candidates(p_in))
       /\ (\A i \in DOMAIN p_in : p_in[i] \in {" ", "\t"}) => p_out.keywords = <<>>

\* "aa, nn, nn, na" was parsed to [aa, nn, na]
C22_Witness ==
    /\ p_out.called
    /\ p_in = <<"a", "a", ",", " ", "n", "n", ",", " ", "n", "n", ",", " ", "n", "a">>
    /\ p_out.keywords = << <<"a", "a">>, <<"n", "n">>, <<"n", "a">> >>

\* the accepted keywords the keyword under consideration is similar to
SimilarAccepted ==
    {j \in DOMAIN f.filtered :
        similar(f.keywords[f.i + 1], f.filtered[j], f.threshold)}

\* the sequence without its j-th element
Without(q, j) == [a \in 1..(Len(q) - 1) |-> IF a < j THEN q[a] ELSE q[a + 1]]

\* filter_similar_keywords has returned
Filtered == f.keywords # <<>> /\ f.i = Len(f.keywords)

\* C23: filter_similar_keywords takes the keywords in input order; a keyword
\* similar to no accepted keyword is accepted; a keyword similar to an
\* accepted one replaces it when it is shorter and is dropped otherwise; and
\* ["content marketing", "content marketing strategy"] with threshold 0.5
\* gives ["content marketing"].
C23_FilterKeepsShorter ==
    /\ [][f'.i = f.i + 1 =>
            LET keyword == f.keywords[f.i + 1]
            IN  IF SimilarAccepted = {}
                THEN f'.filtered = Append(f.filtered, keyword)
                ELSE LET j == CHOOSE a \in SimilarAccepted :
                                  \A b \in SimilarAccepted : a <= b
                     IN  IF len(keyword) < len(f.filtered[j])
                         THEN f'.filtered = Append(Without(f.filtered, j), keyword)
                         ELSE f'.filtered = f.filtered]_vars
    /\ [](Filtered /\ f.threshold = 5
           /\ f.keywords = << <<"content", "marketing">>,
                              <<"content", "marketing", "strategy">> >>
           => f.filtered = << <<"content", "marketing">> >>)

\* the example has been filtered: the longer second keyword was dropped
C23_Witness ==
    /\ Filtered
    /\ f.threshold = 5
    /\ f.keywords = << <<"content", "marketing">>,
                       <<"content", "marketing", "strategy">> >>
    /\ f.filtered = << <<"content", "marketing">> >>

\* C30: the result of filter_similar_keywords has no keyword twice, holds
\* input keywords only, and no two of its keywords are similar above the
\* threshold.
C30_FilteredPairwiseDissimilar ==
    Filtered =>
       /\ \A a, b \in DOMAIN f.filtered : a # b => f.filtered[a] # f.filtered[b]
       /\ \A a \in DOMAIN f.filtered :
             \E b \in DOMAIN f.keywords : f.filtered[a] = f.keywords[b]
       /\ \A a, b \in DOMAIN f.filtered :
             a # b => ~similar(f.filtered[a], f.filtered[b], f.threshold)

\* C24: a batch whose status is processing eventually has status completed
\* or failed, however the calls of the run return or raise.
C24_ProcessingEventuallyEnds ==
    \A b \in BatchIds :
       (Status(b) = "processing") ~> (Status(b) \in {"completed", "failed"})

\* the run of task t has begun its report stage
ReportBegun(t) ==
    \E i \in DOMAIN tasks[t].log :
       tasks[t].log[i].kind = "stage" /\ tasks[t].log[i].what = "generate_report"

\* C25: in a run that reaches status completed, the ideas the idea generator
\* returned are in the store once the report stage has begun.
C25_IdeasPersistedBeforeReport ==
    \A t \in Tasks :
       (tasks[t].pc \in {"r_post_done", "r_post_email", "r_release", "done"}
        /\ ReportBegun(t) /\ Status(tasks[t].batch) = "completed")
       => \A j \in DOMAIN tasks[t].ideas :
             \E r \in DOMAIN post_ideas : post_ideas[r] = tasks[t].ideas[j]

\* the requested cluster count min(max_groups_per_batch, max(1, floor(n/3)))
RequestedClusters ==
    LET third == Len(g_in.keywords) \div 3
        atleast1 == IF third < 1 THEN 1 ELSE third
    IN  IF g_in.max_groups < atleast1 THEN g_in.max_groups ELSE atleast1

\* group_keywords was called with two or more keywords, the embedding was
\* produced, and KMeans, where it was run, returned labels
ClusteringPath ==
    /\ g_out.called
    /\ Len(g_in.keywords) >= 2
    /\ g_in.max_groups >= 1
    /\ g_out.o.model /\ g_out.o.embed
    /\ (RequestedClusters <= 1 \/ g_out.o.kmeans = "ok")

\* C26: on the clustering path the requested cluster count k never exceeds
\* the number of keywords; for k <= 1 the result is one group of all keywords
\* with score 1.0; otherwise it has between 1 and k groups, none empty, with
\* pairwise distinct ids and score 0.8 each.
C26_ClusterCountAndGroups ==
    ClusteringPath =>
       /\ RequestedClusters <= Len(g_in.keywords)
       /\ IF RequestedClusters <= 1
          THEN /\ Len(g_out.groups) = 1
               /\ g_out.groups[1].keywords = g_in.keywords
               /\ g_out.groups[1].score = 10
          ELSE /\ Len(g_out.groups) >= 1
               /\ Len(g_out.groups) <= RequestedClusters
               /\ \A i \in DOMAIN g_out.groups :
                     /\ g_out.groups[i].keywords # <<>>
                     /\ g_out.groups[i].score = 8
               /\ \A i, j \in DOMAIN g_out.groups :
                     i # j => g_out.groups[i].id # g_out.groups[j].id

\* six keywords were clustered for k = 2 and KMeans put them all into the
\* second cluster: one group came back
C26_Witness ==
    /\ ClusteringPath
    /\ Len(g_in.keywords) = 6
    /\ RequestedClusters = 2
    /\ \A i \in 1..6 : g_out.o.labels[i] = 1
    /\ Len(g_out.groups) = 1
    /\ g_out.groups[1].id = grouper_id(2)

\* the pipeline run of task t is over: it released the lock on the success
\* path, or it entered the except clause and left it
RunOver(t) == Ended(t) /\ (tasks[t].deleted_lock \/ tasks[t].failed_at # "")

\* the positions of the terminal notifications in the log of task t
TerminalNotices(t) ==
    {i \in DOMAIN tasks[t].log :
        tasks[t].log[i].what \in {"processing_completed", "processing_failed"}}

AnnouncedCompletion(t) ==
    \E i \in DOMAIN tasks[t].log : tasks[t].log[i].what = "processing_completed"

AnnouncedFailure(t) ==
    \E i \in DOMAIN tasks[t].log : tasks[t].log[i].what = "processing_failed"

\* C27: a pipeline run that is over has posted exactly one terminal
\* notification, and a run that has announced completion has neither marked
\* the batch failed nor posted a failure notification.
C27_OneTerminalNotification ==
    \A t \in Tasks :
       /\ RunOver(t) => Cardinality(TerminalNotices(t)) = 1
       /\ AnnouncedCompletion(t) =>
             /\ tasks[t].pc \notin {"x_release", "x_post"}
             /\ ~AnnouncedFailure(t)

\* task t takes its release step: cache.delete of the lock key of its batch
Releases(t) ==
    /\ tasks[t].pc \in {"r_release", "x_release"}
    /\ tasks'[t].pc # tasks[t].pc

\* the lock of batch b is set, its last writer was task u, and the run of u
\* is still active
HoldsLock(u, b) == LockHeld(b) /\ lock_setter[b] = u /\ ActiveRun(u, b)

\* C28: a pipeline run deletes only a lock that it set itself: its release
\* step never removes the lock another, still active run has set.
C28_ReleaseOnlyOwnLock ==
    [][\A t \in Tasks :
         Releases(t) => \A u \in Tasks \ {t} : ~HoldsLock(u, tasks[t].batch)]_vars

\* C29: however key expiry falls between the get, set and increment steps
\* of _check_rate_limit, a rate-limit key that exists carries a TTL of at
\* most 900 seconds (so that no user stays rejected for ever).
C29_RateLimitKeyHasTTL ==
    \A u \in Users :
       cache_exists(rate_limit_key(u)) =>
          /\ cache[rate_limit_key(u)].ttl >= 1
          /\ cache[rate_limit_key(u)].ttl <= 900
====
